---- MODULE Spec2Model ----
(***************************************************************************)
(* A model of sandman/model.py: the Model mixin that derives endpoint      *)
(* names, resource URIs, links and dictionary (de)serialisation from the   *)
(* table metadata SQLAlchemy attaches to a mapped class.                   *)
(*                                                                         *)
(* Python strings are sequences of one-character strings, so that lower(), *)
(* endswith() and str.format() are computed character by character.        *)
(* Python values are records [t, n, e, s]: t is the type tag, n the        *)
(* integer (or the decimal's coefficient, or 0/1 for a bool), e the number *)
(* of fractional digits of a decimal, s the characters of a string.        *)
(***************************************************************************)
EXTENDS Integers, Sequences, FiniteSets, TLC

VARIABLES
    cls,      \* the model class: [__endpoint__, __table__]
    self,     \* the instance's attributes: a function from the names set so far
    op,       \* the method called last ("init" before any call)
    arg,      \* the dictionary passed to the last from_dict/replace call
    pre,      \* the attributes right before the last call
    result    \* what the last call returned

vars == <<cls, self, op, arg, pre, result>>

(***************************************************************************)
(* Bounds of the model                                                     *)
(***************************************************************************)
MaxInt == 2       \* integer column values range over 0..MaxInt
MaxUnits == 1     \* decimal column values are 0.0 and k.5 for k in 0..MaxUnits
MaxStrLen == 1    \* string column values have at most this many characters
MaxNameLen == 3   \* table names of SpecNames have at most this many characters

(***************************************************************************)
(* Python values                                                           *)
(***************************************************************************)
None == [t |-> "none", n |-> 0, e |-> 0, s |-> << >>]
IntV(i) == [t |-> "int", n |-> i, e |-> 0, s |-> << >>]
BoolV(b) == [t |-> "bool", n |-> IF b THEN 1 ELSE 0, e |-> 0, s |-> << >>]
StrV(chars) == [t |-> "str", n |-> 0, e |-> 0, s |-> chars]
\* Decimal with coefficient coef and exponent -scale: DecV(15, 1) is Decimal('1.5')
DecV(coef, scale) == [t |-> "dec", n |-> coef, e |-> scale, s |-> << >>]

\* Python truthiness, as used by "if value:" and "if column_value:"
Truthy(v) ==
    CASE v.t = "none" -> FALSE
      [] v.t = "int"  -> v.n # 0
      [] v.t = "bool" -> v.n # 0
      [] v.t = "dec"  -> v.n # 0
      [] v.t = "str"  -> Len(v.s) > 0

isinstance_Decimal(v) == v.t = "dec"

Digits == <<"0", "1", "2", "3", "4", "5", "6", "7", "8", "9">>

RECURSIVE NatStr(_)
NatStr(n) ==
    IF n < 10 THEN <<Digits[n + 1]>>
    ELSE NatStr(n \div 10) \o <<Digits[(n % 10) + 1]>>

RECURSIVE Pow10(_)
Pow10(k) == IF k = 0 THEN 1 ELSE 10 * Pow10(k - 1)

\* the k low digits of n, zero padded
RECURSIVE FracStr(_, _)
FracStr(n, k) ==
    IF k = 0 THEN << >>
    ELSE FracStr(n \div 10, k - 1) \o <<Digits[(n % 10) + 1]>>

\* str(Decimal): integer digits, and a point and the fractional digits if any
DecimalStr(v) ==
    IF v.e = 0 THEN NatStr(v.n)
    ELSE NatStr(v.n \div Pow10(v.e)) \o <<".">> \o FracStr(v.n % Pow10(v.e), v.e)

\* str(v), which is also what '{}'.format(v) inserts
str(v) ==
    CASE v.t = "none" -> <<"N", "o", "n", "e">>
      [] v.t = "int"  -> IF v.n < 0 THEN <<"-">> \o NatStr(-v.n) ELSE NatStr(v.n)
      [] v.t = "bool" -> IF v.n # 0 THEN <<"T", "r", "u", "e">>
                         ELSE <<"F", "a", "l", "s", "e">>
      [] v.t = "dec"  -> DecimalStr(v)
      [] v.t = "str"  -> v.s

UpperCase == <<"A", "B", "C", "D", "E", "F", "G", "H", "I", "J", "K", "L", "M",
               "N", "O", "P", "Q", "R", "S", "T", "U", "V", "W", "X", "Y", "Z">>
LowerCase == <<"a", "b", "c", "d", "e", "f", "g", "h", "i", "j", "k", "l", "m",
               "n", "o", "p", "q", "r", "s", "t", "u", "v", "w", "x", "y", "z">>

lowerChar(ch) ==
    IF \E i \in 1..Len(UpperCase) : UpperCase[i] = ch
    THEN LowerCase[CHOOSE i \in 1..Len(UpperCase) : UpperCase[i] = ch]
    ELSE ch

\* str.lower()
lower(chars) == [i \in 1..Len(chars) |-> lowerChar(chars[i])]

\* str.endswith(suffix) for a one-character suffix
endswith(chars, ch) == Len(chars) > 0 /\ chars[Len(chars)] = ch

\* '/{}/{}'.format(a, b), a and b already strings
format(a, b) == <<"/">> \o a \o <<"/">> \o b

\* getattr(obj, name, None)
getattr(obj, name) == IF name \in DOMAIN obj THEN obj[name] ELSE None

\* setattr(obj, name, value)
setattr(obj, name, value) ==
    [x \in (DOMAIN obj) \cup {name} |-> IF x = name THEN value ELSE obj[x]]

\* dictionary.get(key, None)
get(dictionary, key) == IF key \in DOMAIN dictionary THEN dictionary[key] ELSE None

(***************************************************************************)
(* Table metadata, as SQLAlchemy supplies it in __table__                  *)
(***************************************************************************)
Column(name, type) == [name |-> name, type |-> type]

\* a ForeignKey: parent is the column that holds it, column the column it
\* references (in table column.table)
ForeignKey(parent, table, column) ==
    [parent |-> parent, column |-> [name |-> column, table |-> [name |-> table]]]

Table(name, columns, primary_key, foreign_keys) ==
    [name |-> name, columns |-> columns, primary_key |-> primary_key,
     foreign_keys |-> foreign_keys]

\* __table__.columns.keys()
keys(table) == [i \in 1..Len(table.columns) |-> table.columns[i].name]

Book ==
    Table(<<"b", "o", "o", "k">>,
          <<Column("id", "INTEGER"), Column("author_id", "INTEGER")>>,
          <<"id">>,
          {ForeignKey("author_id", <<"a", "u", "t", "h", "o", "r">>, "id")})

Items ==
    Table(<<"I", "T", "E", "M", "S">>,
          <<Column("sku", "VARCHAR"), Column("owner", "INTEGER")>>,
          <<"sku", "owner">>,
          {ForeignKey("owner", <<"P", "e", "r", "s", "o", "n">>, "key"),
           ForeignKey("sku", <<"s", "t", "o", "c", "k">>, "sku"),
           ForeignKey("sku", <<"P", "R", "I", "C", "E", "S">>, "sku")})

Rates ==
    Table(<<"R", "a", "t", "e">>,
          <<Column("rate", "NUMERIC"), Column("active", "BOOLEAN")>>,
          <<"rate">>,
          {})

Person ==
    Table(<<"p", "e", "r", "s", "o", "n">>,
          <<Column("id", "INTEGER")>>,
          <<"id">>,
          {})

\* a model class: the mixin's class attributes a user class sets
ModelClass(endpoint_override, table) ==
    [__endpoint__ |-> endpoint_override, __table__ |-> table]

Classes ==
    {ModelClass(None, Book), ModelClass(None, Items), ModelClass(None, Rates),
     ModelClass(StrV(<<"p", "e", "o", "p", "l", "e">>), Person)}

(***************************************************************************)
(* The methods of Model, as operators on the class c and the instance obj  *)
(***************************************************************************)
\* mutant: the trailing "s" is looked for before lowercasing
endpoint_test_before_lower(c) ==
    LET name == c.__table__.name
    IN  IF ~endswith(name, "s") THEN lower(name) \o <<"s">> ELSE lower(name)

endpoint(c) ==
    LET lowered == lower(c.__table__.name)
    IN  IF ~endswith(lowered, "s") THEN lowered \o <<"s">> ELSE lowered

\* mutant: the last primary-key column instead of the first
primary_key_last(c) == c.__table__.primary_key[Len(c.__table__.primary_key)]

primary_key(c) == c.__table__.primary_key[1]

resource_uri(c, obj) ==
    LET primary_key_value == getattr(obj, primary_key(c))
    IN  format(endpoint(c), str(primary_key_value))

Link(rel, uri) == [rel |-> rel, uri |-> uri]

\* the loop of links() over the foreign keys, visited in the order fks
RECURSIVE related_links(_, _)
related_links(obj, fks) ==
    IF fks = << >> THEN << >>
    ELSE LET foreign_key == Head(fks)
             column == foreign_key.column.name
             column_value == getattr(obj, column)
             table == foreign_key.column.table.name
         IN  (IF Truthy(column_value)
              THEN <<Link("related", format(table, str(column_value)))>>
              ELSE << >>)
             \o related_links(obj, Tail(fks))

\* mutant: the self link is put first
links_self_first(c, obj, fks) ==
    <<Link("self", resource_uri(c, obj))>> \o related_links(obj, fks)

links(c, obj, fks) ==
    related_links(obj, fks) \o <<Link("self", resource_uri(c, obj))>>

\* mutant: decimals are left as they are
as_dict_no_str(c, obj, fks) ==
    LET columns == {keys(c.__table__)[i] : i \in 1..Len(keys(c.__table__))}
    IN  [k \in columns \cup {"_links"} |->
            IF k = "_links" THEN links(c, obj, fks) ELSE getattr(obj, k)]

as_dict(c, obj, fks) ==
    LET columns == {keys(c.__table__)[i] : i \in 1..Len(keys(c.__table__))}
        result_dict == [column \in columns |-> getattr(obj, column)]
        stringified ==
            [column \in columns |->
                IF isinstance_Decimal(result_dict[column])
                THEN StrV(str(result_dict[column]))
                ELSE result_dict[column]]
    IN  [k \in columns \cup {"_links"} |->
            IF k = "_links" THEN links(c, obj, fks) ELSE stringified[k]]

\* the loop of from_dict() over the column names still to visit
RECURSIVE from_dict_loop(_, _, _)
from_dict_loop(obj, columns, dictionary) ==
    IF columns = << >> THEN obj
    ELSE LET column == Head(columns)
             value == get(dictionary, column)
         IN  from_dict_loop(IF Truthy(value) THEN setattr(obj, column, value) ELSE obj,
                            Tail(columns), dictionary)

\* mutant: "if value is not None" instead of "if value"
RECURSIVE from_dict_not_none_loop(_, _, _)
from_dict_not_none_loop(obj, columns, dictionary) ==
    IF columns = << >> THEN obj
    ELSE LET column == Head(columns)
             value == get(dictionary, column)
         IN  from_dict_not_none_loop(
                 IF value # None THEN setattr(obj, column, value) ELSE obj,
                 Tail(columns), dictionary)

from_dict_not_none(c, obj, dictionary) ==
    from_dict_not_none_loop(obj, keys(c.__table__), dictionary)

\* mutant: the loop runs over the dictionary's keys instead of the columns
from_dict_all_keys(c, obj, dictionary) ==
    [x \in (DOMAIN obj) \cup {k \in DOMAIN dictionary : Truthy(dictionary[k])} |->
        IF x \in DOMAIN dictionary /\ Truthy(dictionary[x]) THEN dictionary[x]
        ELSE obj[x]]

from_dict(c, obj, dictionary) == from_dict_loop(obj, keys(c.__table__), dictionary)

\* the loop of replace() that sets every column to None
RECURSIVE reset_loop(_, _)
reset_loop(obj, columns) ==
    IF columns = << >> THEN obj
    ELSE reset_loop(setattr(obj, Head(columns), None), Tail(columns))

\* mutant: the columns are not reset first
replace_no_reset(c, obj, dictionary) == from_dict(c, obj, dictionary)

replace(c, obj, dictionary) ==
    from_dict(c, reset_loop(obj, keys(c.__table__)), dictionary)

(***************************************************************************)
(* Inputs                                                                  *)
(***************************************************************************)
RECURSIVE StringsUpTo(_, _)
StringsUpTo(alphabet, n) ==
    IF n = 0 THEN {<< >>}
    ELSE LET shorter == StringsUpTo(alphabet, n - 1)
         IN  shorter \cup {Append(w, ch) : w \in shorter, ch \in alphabet}

\* the values a column of the given type can hold, None included
ValuesOf(type) ==
    {None} \cup
    CASE type = "INTEGER" -> {IntV(i) : i \in 0..MaxInt}
      [] type = "VARCHAR" -> {StrV(w) : w \in StringsUpTo({"x"}, MaxStrLen)}
      [] type = "NUMERIC" -> {DecV(0, 1)} \cup {DecV(10 * k + 5, 1) : k \in 0..MaxUnits}
      [] type = "BOOLEAN" -> {BoolV(FALSE), BoolV(TRUE)}

ColumnNames(table) == {table.columns[i].name : i \in 1..Len(table.columns)}

TypeOf(table, name) ==
    table.columns[CHOOSE i \in 1..Len(table.columns) : table.columns[i].name = name].type

\* the attribute states an instance is handed over in: freshly constructed (no
\* column attribute set) or loaded from a row (every column set)
Rows(table) ==
    {[name \in {} |-> None]} \cup
    {row \in [ColumnNames(table) -> UNION {ValuesOf(table.columns[i].type) :
                                            i \in 1..Len(table.columns)}] :
        \A name \in ColumnNames(table) : row[name] \in ValuesOf(TypeOf(table, name))}

\* a key of incoming dictionaries that names no column
ExtraKey == "unknown"

\* the dictionaries passed to from_dict and replace: any subset of the column
\* names and ExtraKey, each column with a value of its type or None
Dictionaries(table) ==
    UNION {
        {d \in [ks -> UNION {ValuesOf(table.columns[i].type) : i \in 1..Len(table.columns)}] :
            \A k \in ks : d[k] \in (IF k = ExtraKey THEN {IntV(1)}
                                    ELSE ValuesOf(TypeOf(table, k)))}
        : ks \in SUBSET (ColumnNames(table) \cup {ExtraKey})}

\* the orders in which iterating the set __table__.foreign_keys can visit it
Orders(fks) ==
    {order \in [1..Cardinality(fks) -> fks] :
        \A i, j \in 1..Cardinality(fks) : i # j => order[i] # order[j]}

NoDict == [k \in {} |-> None]

\* the dictionaries and iteration orders of each class, computed once
DictionariesOf == [c \in Classes |-> Dictionaries(c.__table__)]
OrdersOf == [c \in Classes |-> Orders(c.__table__.foreign_keys)]

(***************************************************************************)
(* The state machine: one action per call of a method on the instance      *)
(***************************************************************************)
Init ==
    /\ cls \in Classes
    /\ self \in Rows(cls.__table__)
    /\ op = "init"
    /\ arg = NoDict
    /\ pre = self
    /\ result = None

Endpoint ==
    /\ op' = "endpoint"
    /\ result' = endpoint(cls)
    /\ arg' = NoDict
    /\ pre' = self
    /\ UNCHANGED <<cls, self>>

PrimaryKey ==
    /\ op' = "primary_key"
    /\ result' = primary_key(cls)
    /\ arg' = NoDict
    /\ pre' = self
    /\ UNCHANGED <<cls, self>>

ResourceUri ==
    /\ op' = "resource_uri"
    /\ result' = resource_uri(cls, self)
    /\ arg' = NoDict
    /\ pre' = self
    /\ UNCHANGED <<cls, self>>

Links ==
    \E order \in OrdersOf[cls] :
        /\ op' = "links"
        /\ result' = links(cls, self, order)
        /\ arg' = NoDict
        /\ pre' = self
        /\ UNCHANGED <<cls, self>>

AsDict ==
    \E order \in OrdersOf[cls] :
        /\ op' = "as_dict"
        /\ result' = as_dict(cls, self, order)
        /\ arg' = NoDict
        /\ pre' = self
        /\ UNCHANGED <<cls, self>>

FromDict ==
    \E dictionary \in DictionariesOf[cls] :
        /\ op' = "from_dict"
        /\ self' = from_dict(cls, self, dictionary)
        /\ arg' = dictionary
        /\ pre' = self
        /\ result' = None
        /\ UNCHANGED cls

Replace ==
    \E dictionary \in DictionariesOf[cls] :
        /\ op' = "replace"
        /\ self' = replace(cls, self, dictionary)
        /\ arg' = dictionary
        /\ pre' = self
        /\ result' = None
        /\ UNCHANGED cls

Next ==
    \/ Endpoint
    \/ PrimaryKey
    \/ ResourceUri
    \/ Links
    \/ AsDict
    \/ FromDict
    \/ Replace

Spec == Init /\ [][Next]_vars

(***************************************************************************)
(* endpoint() and resource_uri() over every table name of a small alphabet *)
(***************************************************************************)
NameAlphabet == {"b", "s", "B", "S"}

Names == StringsUpTo(NameAlphabet, MaxNameLen)

NamedTable(name) == Table(name, <<Column("id", "INTEGER")>>, <<"id">>, {})

InitNames ==
    /\ cls \in {ModelClass(None, NamedTable(name)) : name \in Names}
    /\ self \in Rows(cls.__table__)
    /\ op = "init"
    /\ arg = NoDict
    /\ pre = self
    /\ result = None

NextNames ==
    \/ Endpoint
    \/ ResourceUri

SpecNames == InitNames /\ [][NextNames]_vars

(***************************************************************************)
(* Properties                                                              *)
(***************************************************************************)
Cols == ColumnNames(cls.__table__)
ForeignKeys == cls.__table__.foreign_keys
FirstPrimaryKey == cls.__table__.primary_key[1]
Slash == <<"/">>

HasPrefix(chars, prefix) ==
    Len(chars) >= Len(prefix) /\ SubSeq(chars, 1, Len(prefix)) = prefix

\* the positions of the 'related' links of result that point into fk's remote table
RelatedFor(fk) ==
    {i \in 1..Len(result) :
        /\ result[i].rel = "related"
        /\ HasPrefix(result[i].uri, Slash \o fk.column.table.name \o Slash)}

\* C1: links() holds exactly one 'related' link for each foreign key whose
\* local (referencing) column is truthy on the instance, with uri
\* '/' + remote table name + '/' + that local value, and none for a foreign key
\* whose local column is null, 0 or empty.
C1_RelatedLinkPerForeignKey ==
    op = "links" =>
        \A fk \in ForeignKeys :
            LET local == getattr(self, fk.parent)
            IN  IF Truthy(local)
                THEN /\ Cardinality(RelatedFor(fk)) = 1
                     /\ \A i \in RelatedFor(fk) :
                            result[i].uri
                                = Slash \o fk.column.table.name \o Slash \o str(local)
                ELSE RelatedFor(fk) = {}

\* C2: links() returns a sequence with exactly one 'self' entry; its uri is
\* resource_uri() of the instance and it is the last element, every 'related'
\* link coming before it.
C2_OneSelfLinkLast ==
    op = "links" =>
        /\ Len(result) >= 1
        /\ result[Len(result)] = [rel |-> "self", uri |-> resource_uri(cls, self)]
        /\ \A i \in 1..(Len(result) - 1) : result[i].rel = "related"

C2_Witness ==
    /\ op = "links"
    /\ Len(result) = 3
    /\ result[1].rel = "related"
    /\ result[2].rel = "related"

\* C3: after replace(d) every declared column holds d[c] if d has a truthy
\* value for c and null otherwise, whatever the instance held before;
\* replace({}) nulls every column, and replace(d) applied again changes nothing.
C3_ReplaceIsFullReplacement ==
    op = "replace" =>
        /\ \A c \in Cols :
              /\ c \in DOMAIN self
              /\ self[c] = IF c \in DOMAIN arg /\ Truthy(arg[c]) THEN arg[c] ELSE None
        /\ (arg = NoDict => \A c \in Cols : self[c] = None)
        /\ replace(cls, self, arg) = self

C3_Witness ==
    /\ op = "replace"
    /\ \E c \in Cols :
          /\ c \in DOMAIN pre /\ Truthy(pre[c])
          /\ c \notin DOMAIN arg
          /\ self[c] = None
    /\ \E c \in Cols :
          /\ c \in DOMAIN arg /\ Truthy(arg[c])
          /\ c \in DOMAIN pre /\ pre[c] # arg[c]

\* C4: after from_dict(d) every declared column holds d[c] if d has a truthy
\* value for c, and is otherwise as it was before the call (unset stays unset);
\* keys of d that are no declared columns set nothing; on a fresh instance, a d
\* of truthy values for the declared columns leaves the attributes equal to d.
C4_FromDictIsPartialUpdate ==
    op = "from_dict" =>
        /\ \A c \in Cols :
              IF c \in DOMAIN arg /\ Truthy(arg[c])
              THEN c \in DOMAIN self /\ self[c] = arg[c]
              ELSE /\ (c \in DOMAIN self) = (c \in DOMAIN pre)
                   /\ c \in DOMAIN pre => self[c] = pre[c]
        /\ DOMAIN self \subseteq Cols \cup DOMAIN pre
        /\ \A k \in (DOMAIN self) \ Cols : self[k] = pre[k]
        /\ (pre = NoDict /\ DOMAIN arg = Cols /\ \A c \in Cols : Truthy(arg[c]))
               => self = arg

C4_Witness ==
    /\ op = "from_dict"
    /\ ExtraKey \in DOMAIN arg
    /\ \E c \in Cols :
          /\ c \in DOMAIN arg /\ arg[c] # None /\ ~Truthy(arg[c])
          /\ c \in DOMAIN pre /\ Truthy(pre[c])
          /\ self[c] = pre[c]
    /\ \E c \in Cols :
          /\ c \in DOMAIN arg /\ Truthy(arg[c])
          /\ c \notin DOMAIN pre

\* C5: the keys of as_dict() are the declared column names and '_links'; an
\* unset column maps to null, a decimal value to its string form (never a
\* decimal), any other value to itself, and '_links' to links().
C5_AsDictShape ==
    op = "as_dict" =>
        /\ DOMAIN result = Cols \cup {"_links"}
        /\ \A c \in Cols :
              /\ result[c].t # "dec"
              /\ result[c] =
                    IF c \notin DOMAIN self THEN None
                    ELSE IF self[c].t = "dec" THEN StrV(str(self[c]))
                    ELSE self[c]
        /\ \E order \in Orders(ForeignKeys) : result["_links"] = links(cls, self, order)

C5_Witness ==
    /\ op = "as_dict"
    /\ "rate" \in DOMAIN self
    /\ self["rate"] = DecV(15, 1)
    /\ result["rate"] = StrV(<<"1", ".", "5">>)
    /\ "active" \in Cols \ DOMAIN self
    /\ result["active"] = None

\* C6 as stated: endpoint() is lowercase(T) + "s" if T does not end in the
\* character "s", and lowercase(T) if it does.
C6_EndpointByLastCharacter ==
    op = "endpoint" =>
        LET T == cls.__table__.name
        IN  result = IF endswith(T, "s") THEN lower(T) ELSE lower(T) \o <<"s">>

\* C6 amended: endpoint() is lowercase(T) if T ends in "s" or "S", and
\* lowercase(T) + "s" otherwise (the empty name included).
C6_EndpointByLoweredLastCharacter ==
    op = "endpoint" =>
        LET T == cls.__table__.name
        IN  result = IF endswith(T, "s") \/ endswith(T, "S") THEN lower(T)
                     ELSE lower(T) \o <<"s">>

C6_Witness ==
    /\ op = "endpoint"
    /\ cls.__table__.name = <<"B", "S">>
    /\ result = <<"b", "s">>

\* C7: a class that overrides __endpoint__ with a non-null value gets that
\* value from endpoint(); only with __endpoint__ left at None is the endpoint
\* the lowercased, pluralized table name.
C7_EndpointOverride ==
    op = "endpoint" =>
        result = IF cls.__endpoint__ # None THEN cls.__endpoint__.s
                 ELSE IF endswith(lower(cls.__table__.name), "s")
                      THEN lower(cls.__table__.name)
                      ELSE lower(cls.__table__.name) \o <<"s">>

\* C8: resource_uri() is "/" + endpoint() + "/" + str(v), v the attribute named
\* by the first declared primary-key column; with that attribute unset the
\* last segment is "None".
C8_ResourceUri ==
    op = "resource_uri" =>
        /\ result = Slash \o endpoint(cls) \o Slash
                        \o (IF FirstPrimaryKey \in DOMAIN self
                            THEN str(self[FirstPrimaryKey])
                            ELSE <<"N", "o", "n", "e">>)
        /\ FirstPrimaryKey \notin DOMAIN self
              => SubSeq(result, Len(result) - 3, Len(result)) = <<"N", "o", "n", "e">>

C8_Witness ==
    /\ op = "resource_uri"
    /\ Len(cls.__table__.primary_key) = 2
    /\ FirstPrimaryKey \notin DOMAIN self
    /\ cls.__table__.primary_key[2] \in DOMAIN self
    /\ Truthy(self[cls.__table__.primary_key[2]])

\* the model class of the table a foreign key references
RemoteClass(fk) == [__endpoint__ |-> None, __table__ |-> fk.column.table]

\* C9: every uri in '_links' of as_dict() is '/<endpoint>/<key>': the self
\* link's under the instance's own endpoint with its primary-key value, a
\* related link's under the endpoint() of the referenced table's model with
\* the key it references (the value of the foreign key's local column).
C9_UriPattern ==
    op = "as_dict" =>
        \A i \in 1..Len(result["_links"]) :
            LET link == result["_links"][i]
            IN  IF link.rel = "self"
                THEN link.uri = Slash \o endpoint(cls) \o Slash
                                    \o str(getattr(self, FirstPrimaryKey))
                ELSE \E fk \in ForeignKeys :
                        link.uri = Slash \o endpoint(RemoteClass(fk)) \o Slash
                                       \o str(getattr(self, fk.parent))

\* C10: no from_dict call takes a column from a truthy value to null or a
\* falsy value, only replace clears a truthy column, and every call leaves each
\* column as it was, null, or holding a truthy value the call supplied (so that
\* after any sequence a column holds null, its initial value or a truthy value
\* supplied by an earlier call).
C10_FromDictNeverClears ==
    [][ /\ op' = "from_dict" =>
              \A c \in Cols : Truthy(getattr(self, c)) => Truthy(getattr(self', c))
        /\ \A c \in Cols :
              (Truthy(getattr(self, c)) /\ ~Truthy(getattr(self', c)))
                  => op' = "replace"
        /\ \A c \in Cols :
              \/ (c \in DOMAIN self') = (c \in DOMAIN self)
                    /\ getattr(self', c) = getattr(self, c)
              \/ c \in DOMAIN self' /\ self'[c] = None
              \/ /\ c \in DOMAIN self' /\ Truthy(self'[c])
                 /\ c \in DOMAIN arg' /\ self'[c] = arg'[c]
      ]_vars

C10_Witness ==
    /\ op = "from_dict"
    /\ \A c \in Cols :
          /\ c \in DOMAIN pre /\ Truthy(pre[c])
          /\ c \in DOMAIN arg /\ ~Truthy(arg[c])
          /\ self[c] = pre[c]

====
